---- MODULE Spec2Model ----
(***************************************************************************)
(* Model of src/trata_csv.py (class CSVProcessor): the reference lookup    *)
(* cache, the locale numeric converter, the table normalizer process_data  *)
(* and the file loop process_file / process_all_files.                     *)
(*                                                                         *)
(* Text is modelled as a sequence of one-character strings, so that        *)
(* concatenation, trimming, replacing and substring tests are computed     *)
(* the way the Python code computes them.                                  *)
(***************************************************************************)
EXTENDS Integers, Sequences, FiniteSets, TLC

VARIABLES
    db_cache,    \* self.db_cache: cache key (text) -> stored result
    call,        \* what the last fetch_reference_data call did and gave its caller
    openConns,   \* connections acquired by get_db_connection and not closed
    returned,    \* history: (arguments, result) of the calls that returned
    value,       \* argument of convert_single
    converted,   \* outcome of convert_single(value)
    df,          \* the DataFrame handed to process_data (mutated in place)
    before,      \* the DataFrame as it was when the last process_data call began
    pd_call,     \* what the last process_data call did
    csv_files,   \* process_all_files: the input files found, each holding a table
    outputs,     \* per file, the table written to output_dir (or NoOutput)
    next_file,   \* position of the for loop of process_all_files
    run          \* state of the process_all_files call

vars == <<db_cache, call, openConns, returned, value, converted, df, before,
          pd_call, csv_files, outputs, next_file, run>>

-----------------------------------------------------------------------------
(* Text helpers *)

IsSpace(c) == c = " "

RECURSIVE LStrip(_)
LStrip(s) == IF s # <<>> /\ IsSpace(Head(s)) THEN LStrip(Tail(s)) ELSE s

RECURSIVE RStrip(_)
RStrip(s) ==
    IF s # <<>> /\ IsSpace(s[Len(s)]) THEN RStrip(SubSeq(s, 1, Len(s) - 1)) ELSE s

\* str.strip()
Strip(s) == RStrip(LStrip(s))

\* str.replace(c, by) for a one-character pattern; by is a text (possibly empty)
RECURSIVE Replace(_, _, _)
Replace(s, c, by) ==
    IF s = <<>> THEN <<>>
    ELSE (IF Head(s) = c THEN by ELSE <<Head(s)>>) \o Replace(Tail(s), c, by)

\* sub in s
Contains(s, sub) ==
    \E i \in 1..(Len(s) - Len(sub) + 1) : SubSeq(s, i, i + Len(sub) - 1) = sub

LowerCase ==
    <<"a", "b", "c", "d", "e", "f", "g", "h", "i", "j", "k", "l", "m",
      "n", "o", "p", "q", "r", "s", "t", "u", "v", "w", "x", "y", "z">>
UpperCase ==
    <<"A", "B", "C", "D", "E", "F", "G", "H", "I", "J", "K", "L", "M",
      "N", "O", "P", "Q", "R", "S", "T", "U", "V", "W", "X", "Y", "Z">>

UpperChar(c) ==
    IF \E i \in 1..Len(LowerCase) : LowerCase[i] = c
    THEN UpperCase[CHOOSE i \in 1..Len(LowerCase) : LowerCase[i] = c]
    ELSE c

\* str.upper()
Upper(s) == [i \in 1..Len(s) |-> UpperChar(s[i])]

Count(s, c) == Cardinality({i \in 1..Len(s) : s[i] = c})

sNone == <<"N", "o", "n", "e">>
sNan == <<"n", "a", "n">>
sEstado == <<"e", "s", "t", "a", "d", "o">>
sId == <<"i", "d">>

-----------------------------------------------------------------------------
(* Values: a cell of a table, a field of a reference record, an argument *)

NaN == [t |-> "nan", s |-> <<>>, n |-> 0, d |-> 0]       \* float nan: pandas' missing marker
None == [t |-> "none", s |-> <<>>, n |-> 0, d |-> 0]     \* Python None
Str(s) == [t |-> "str", s |-> s, n |-> 0, d |-> 0]
Num(n, d) == [t |-> "num", s |-> <<>>, n |-> n, d |-> d] \* the number n / 10^d

\* pd.isna(value) / not pd.notna(value)
IsNa(v) == v.t \in {"nan", "none"}

-----------------------------------------------------------------------------
(* fetch_reference_data and the external store *)

PaisQuery == <<"s", "e", "l", "e", "c", "t", " ", "*", " ", "f", "r", "o", "m", " ", "d", "e", "p", "a", "r", "a", ".", "c", "o", "d", "i", "g", "o", "_", "p", "a", "i", "s">>
OtherQuery == <<"q">>

NoParams == [none |-> TRUE, items |-> <<>>]       \* params=None
Tuple(items) == [none |-> FALSE, items |-> items] \* params=(...)

Args(query, params, key_field) == [query |-> query, params |-> params, key_field |-> key_field]
NoArgs == Args(<<>>, NoParams, None)

\* the arguments the clients of the model call fetch_reference_data with
FetchArgs ==
    { Args(PaisQuery, NoParams, Str(sEstado)),
      Args(PaisQuery, Tuple(<<>>), Str(sEstado)),
      Args(PaisQuery, NoParams, None),
      Args(PaisQuery, NoParams, Str(sNone)),
      Args(OtherQuery, NoParams, None),
      Args(OtherQuery, NoParams, Str(sNone)),
      Args(OtherQuery, Tuple(<<>>), Str(sId)),
      Args(OtherQuery, NoParams, Str(sId)) }

\* how the store answers one call: it serves the query, refuses the connection,
\* or fails the query
Outcomes == {"ok", "connfail", "queryfail"}

Digit(i) == <<"0", "1", "2", "3", "4", "5", "6", "7", "8", "9">>[i + 1]

RECURSIVE ReprItems(_)
ReprItems(items) ==
    IF items = <<>> THEN <<>>
    ELSE IF Len(items) = 1 THEN <<Digit(items[1])>>
    ELSE <<Digit(items[1]), ",", " ">> \o ReprItems(Tail(items))

\* str(params) as the f-string formats it
StrParams(p) ==
    IF p.none THEN sNone
    ELSE <<"(">> \o ReprItems(p.items)
         \o (IF Len(p.items) = 1 THEN <<",">> ELSE <<>>) \o <<")">>

\* str(key_field) as the f-string formats it
StrKeyField(k) == IF k.t = "none" THEN sNone ELSE k.s

\* cache_key = f"{query}{params}{key_field}"
CacheKey(args) ==
    args.query \o StrParams(args.params) \o StrKeyField(args.key_field)

\* The rows the store holds: each row zipped with the column names.
PaisRows ==
    << << <<sEstado, Str(<<"S", "P">>)>>, <<sId, Num(1, 0)>> >>,
       << <<sEstado, Str(<<"R", "J">>)>>, <<sId, Num(2, 0)>> >>,
       << <<sEstado, Str(<<"S", "P">>)>>, <<sId, Num(3, 0)>> >>,
       << <<sEstado, None>>, <<sId, Num(4, 0)>> >> >>
OtherRows == << << <<sId, Num(7, 0)>> >>, << <<sId, Num(7, 0)>> >>, << <<sId, None>> >> >>

\* cursor.execute(query, params or ()) followed by the zip over fetchall()
QueryRows(args) == IF args.query = PaisQuery THEN PaisRows ELSE OtherRows

\* item.get(field)
ItemGet(item, field) ==
    IF \E i \in 1..Len(item) : item[i][1] = field
    THEN item[CHOOSE i \in 1..Len(item) : item[i][1] = field][2]
    ELSE None

\* result_dict[key] = item
DictPut(d, key, item) ==
    IF \E i \in 1..Len(d) : d[i].key = key
    THEN [i \in 1..Len(d) |-> IF d[i].key = key THEN [key |-> key, item |-> item] ELSE d[i]]
    ELSE Append(d, [key |-> key, item |-> item])

\* `if key is not None: result_dict[key] = item`
DictAdd(d, key, item) == IF key.t # "none" THEN DictPut(d, key, item) ELSE d

\* the loop that indexes the rows by key_field
RECURSIVE BuildDict(_, _, _)
BuildDict(d, results, key_field) ==
    IF results = <<>> THEN d
    ELSE BuildDict(DictAdd(d, ItemGet(Head(results), key_field.s), Head(results)),
                   Tail(results), key_field)

ListResult(rows) == [shape |-> "list", rows |-> rows, entries |-> <<>>]
DictResult(entries) == [shape |-> "dict", rows |-> <<>>, entries |-> entries]
NoResult == [shape |-> "none", rows |-> <<>>, entries |-> <<>>]

\* `if key_field:` decides the shape of what is stored and returned
Shape(results, key_field) ==
    IF key_field.t = "str" /\ key_field.s # <<>>
    THEN DictResult(BuildDict(<<>>, results, key_field))
    ELSE ListResult(results)

\* mutant of CacheHit: the cache is never consulted
CacheHitNever(cache, ck) == FALSE

\* `if cache_key in self.db_cache`
CacheHit(cache, ck) == ck \in DOMAIN cache

\* self.db_cache[cache_key] = result
CacheStore(cache, ck, result) == (ck :> result) @@ cache

\* what a call did: the cache it leaves, how it ended, what it gave back,
\* whether it acquired a connection and executed the query, and the
\* connections it left open
Done(cache, args, error, result, connected, executed, leaked) ==
    [cache |-> cache, args |-> args,
     outcome |-> IF error = "none" THEN "returned" ELSE "raised",
     error |-> error, result |-> IF error = "none" THEN result ELSE NoResult,
     connected |-> connected, executed |-> executed, leaked |-> leaked]

\* finally: if conn: conn.close().  conn is bound only when get_db_connection
\* returned; reading it unbound raises UnboundLocalError, which replaces the
\* exception in flight.
ReleaseStep(acquired, pending) ==
    IF acquired THEN [error |-> pending, closed |-> TRUE]
    ELSE [error |-> "UnboundLocalError", closed |-> FALSE]

\* the call leaves through the finally clause
Leave(cache, args, result, acquired, rel) ==
    Done(cache, args, rel.error, result, acquired, acquired,
         IF acquired /\ ~rel.closed THEN 1 ELSE 0)

\* the result is stored under the cache key and returned
Store(cache, args, ck, result) ==
    Leave(CacheStore(cache, ck, result), args, result, TRUE, ReleaseStep(TRUE, "none"))

\* the try block on a cache miss
Miss(cache, args, ck, db) ==
    IF db = "connfail"
    THEN Leave(cache, args, NoResult, FALSE, ReleaseStep(FALSE, "ConnectError"))
    ELSE IF db = "queryfail"
    THEN Leave(cache, args, NoResult, TRUE, ReleaseStep(TRUE, "QueryError"))
    ELSE Store(cache, args, ck, Shape(QueryRows(args), args.key_field))

Lookup(cache, args, ck, db) ==
    IF CacheHit(cache, ck)
    THEN Done(cache, args, "none", cache[ck], FALSE, FALSE, 0)
    ELSE Miss(cache, args, ck, db)

\* One whole call of fetch_reference_data, against a store that answers `db`.
Fetch(cache, args, db) == Lookup(cache, args, CacheKey(args), db)

\* what a caller keeps of a call
CallRecord(r) ==
    [args |-> r.args, outcome |-> r.outcome, error |-> r.error, result |-> r.result,
     connected |-> r.connected, executed |-> r.executed]

NoCall ==
    [args |-> NoArgs, outcome |-> "none", error |-> "none", result |-> NoResult,
     connected |-> FALSE, executed |-> FALSE]

EmptyCache == [k \in {} |-> NoResult]

-----------------------------------------------------------------------------
(* _convert_br_to_en_us: the locale numeric converter *)

MaxStrLen == 4

Digits == {"0", "1", "2", "3", "4", "5", "6", "7", "8", "9"}

\* the characters the texts given to convert_single are made of
Chars == {"0", "1", "5", ".", ",", "-", " ", "a"}

DigitVal(c) == CHOOSE i \in 0..9 : Digit(i) = c

RECURSIVE IntOf(_)
IntOf(ds) ==
    IF ds = <<>> THEN 0
    ELSE 10 * IntOf(SubSeq(ds, 1, Len(ds) - 1)) + DigitVal(ds[Len(ds)])

\* the number n / 10^d written with as few decimals as it needs (75000.00 = 75000)
RECURSIVE Normal(_, _)
Normal(n, d) == IF d > 0 /\ n % 10 = 0 THEN Normal(n \div 10, d - 1) ELSE Num(n, d)

Negate(v) == Num(0 - v.n, v.d)
IsDigit(c) == c \in Digits

\* the number of characters after the point (none when there is no point)
Decimals(body) ==
    IF \E i \in 1..Len(body) : body[i] = "."
    THEN Len(body) - (CHOOSE i \in 1..Len(body) : body[i] = ".")
    ELSE 0

\* digits with at most one point and at least one digit
FloatOfBody(body, negative) ==
    IF /\ \A i \in 1..Len(body) : body[i] \in Digits \cup {"."}
       /\ Count(body, ".") <= 1
       /\ \E i \in 1..Len(body) : body[i] \in Digits
    THEN [ok |-> TRUE,
          val |-> IF negative
                  THEN Negate(Normal(IntOf(SelectSeq(body, IsDigit)), Decimals(body)))
                  ELSE Normal(IntOf(SelectSeq(body, IsDigit)), Decimals(body))]
    ELSE [ok |-> FALSE, val |-> NaN]

\* an optional sign, then the body
FloatOfTrimmed(t) ==
    IF t # <<>> /\ Head(t) \in {"-", "+"}
    THEN FloatOfBody(Tail(t), Head(t) = "-")
    ELSE FloatOfBody(t, FALSE)

\* float(text): the value, or ValueError (ok = FALSE); surrounding blanks are skipped
PyFloat(text) == FloatOfTrimmed(Strip(text))

\* str(value) for a cell
PyStr(v) ==
    CASE v.t = "str" -> v.s
      [] v.t = "nan" -> sNan
      [] v.t = "none" -> sNone
      [] OTHER -> <<"#">>   \* a number's digits: no operation of the model reads them

Returned(v) == [done |-> TRUE, outcome |-> "returned", result |-> v]
NotConverted == [done |-> FALSE, outcome |-> "none", result |-> None]

\* str_value.replace('.', '').replace(',', '.')
CleanNum(str_value) == Replace(Replace(str_value, ".", <<>>), ",", <<".">>)

\* mutant of TryFloat: the trimmed text is returned when parsing fails
TryFloatTrimmed(v, f) == IF f.ok THEN Returned(f.val) ELSE Returned(Str(Strip(PyStr(v))))

\* try: return float(clean_num) / except ValueError: return value
TryFloat(v, f) == IF f.ok THEN Returned(f.val) ELSE Returned(v)

\* convert_single(value)
convert_single(v) ==
    IF IsNa(v) THEN Returned(v)
    ELSE IF v.t = "num" THEN Returned(v)
    ELSE TryFloat(v, PyFloat(CleanNum(Strip(PyStr(v)))))

RECURSIVE Texts(_)
Texts(n) ==
    IF n = 0 THEN {<<>>}
    ELSE Texts(n - 1) \cup {Append(s, c) : s \in Texts(n - 1), c \in Chars}

\* the examples of the docstring
Ex75000 == <<"7", "5", ".", "0", "0", "0", ",", "0", "0">>
Ex7857 == <<"7", "8", ",", "5", "7">>

ConvInputs ==
    {NaN, None, Num(425, 1), Num(3, 0), Str(Ex75000), Str(Ex7857)}
        \cup {Str(s) : s \in Texts(MaxStrLen)}

-----------------------------------------------------------------------------
(* process_data: the table normalizer *)

CapitalSegurado == <<"C", "A", "P", "I", "T", "A", "L", " ", "S", "E", "G", "U", "R", "A", "D", "O", " ", "(", "M", "O", "E", "D", "A", " ", "O", "R", "I", "G", "E", "M", ")">>
ValorEstimadoUS == <<"V", "A", "L", "O", "R", " ", "E", "S", "T", "I", "M", "A", "D", "O", " ", "(", "U", "S", "$", " ", ")">>
ValorEstimadoBR == <<"V", "A", "L", "O", "R", " ", "E", "S", "T", "I", "M", "A", "D", "O", " ", "(", "R", "$", ")">>
FeeUS == <<"F", "E", "E", " ", "(", "U", "S", "$", ")">>
FeeBRL == <<"F", "E", "E", " ", "(", "B", "R", "L", ")">>
TaxaCambio == <<"T", "A", "X", "A", " ", "D", "E", " ", "C", "Â", "M", "B", "I", "O">>

\* the keys of tratamentos_padronizados; every one maps to _convert_br_to_en_us
tratamentos_padronizados ==
    {CapitalSegurado, ValorEstimadoUS, ValorEstimadoBR, FeeUS, FeeBRL, TaxaCambio}

IdPais == <<"I", "D", "_", "P", "A", "I", "S">>
EstadoToken == <<"E", "S", "T", "A", "D", "O">>

\* 'ESTADO' in coluna.upper()
IsEstado(coluna) == Contains(Upper(coluna), EstadoToken)

Column(name, dtype, cells) == [name |-> name, dtype |-> dtype, cells |-> cells]

NoneToNaN(v) == IF v.t = "none" THEN NaN ELSE v

\* The dtype pandas infers for the values Series.apply collected, and the
\* values as that dtype holds them: text anywhere gives object; otherwise a
\* number or nan gives float64, where None is held as nan; otherwise (None
\* only) object.
Infer(cells) ==
    IF \E i \in 1..Len(cells) : cells[i].t = "str"
    THEN [dtype |-> "object", cells |-> cells]
    ELSE IF \E i \in 1..Len(cells) : cells[i].t \in {"num", "nan"}
    THEN [dtype |-> "float64", cells |-> [i \in 1..Len(cells) |-> NoneToNaN(cells[i])]]
    ELSE [dtype |-> "object", cells |-> cells]

Typed(name, inferred) == Column(name, inferred.dtype, inferred.cells)

\* series.apply(convert_single)
convert_br_to_en_us(series) ==
    Typed(series.name,
          Infer([i \in 1..Len(series.cells) |-> convert_single(series.cells[i]).result]))

\* series.astype(str).str.strip(), one value
AsTypeStrStrip(v) == Str(Strip(PyStr(v)))

\* _tratar_generico
tratar_generico(series) ==
    IF series.dtype = "object"
    THEN Column(series.name, "object",
                [i \in 1..Len(series.cells) |-> AsTypeStrStrip(series.cells[i])])
    ELSE series

\* estado_para_pais.get(key, {})
DictGet(result, key) ==
    IF \E i \in 1..Len(result.entries) : result.entries[i].key = key
    THEN result.entries[CHOOSE i \in 1..Len(result.entries) : result.entries[i].key = key].item
    ELSE <<>>

\* the lambda of the ESTADO branch, one value
LookupId(estado_para_pais, estado) ==
    IF ~IsNa(estado)
    THEN ItemGet(DictGet(estado_para_pais, Str(Strip(PyStr(estado)))), sId)
    ELSE None

HasColumn(t, name) == \E i \in 1..Len(t) : t[i].name = name
ColumnOf(t, name) == t[CHOOSE i \in 1..Len(t) : t[i].name = name]

\* df[name] = series: an existing column is replaced where it stands, a new one
\* is added after the last column
SetColumn(t, name, series) ==
    IF HasColumn(t, name)
    THEN [i \in 1..Len(t) |-> IF t[i].name = name
                               THEN Column(name, series.dtype, series.cells) ELSE t[i]]
    ELSE Append(t, Column(name, series.dtype, series.cells))

\* the dispatch on tratamentos_padronizados
Treat(series) ==
    IF series.name \in tratamentos_padronizados
    THEN convert_br_to_en_us(series)
    ELSE tratar_generico(series)

\* the ESTADO branch: df['ID_PAIS'] = df[coluna].apply(...)
Enrich(t, treated, estado_para_pais) ==
    IF IsEstado(treated.name)
    THEN SetColumn(t, IdPais,
                   Infer([i \in 1..Len(treated.cells) |->
                             LookupId(estado_para_pais, treated.cells[i])]))
    ELSE t

\* df[coluna] = <treated column>, then the ESTADO branch on the treated column
Assign(t, treated, estado_para_pais) ==
    Enrich(SetColumn(t, treated.name, treated), treated, estado_para_pais)

\* the body of `for coluna in df.columns`, for one column
TreatColumn(t, coluna, estado_para_pais) ==
    Assign(t, Treat(ColumnOf(t, coluna)), estado_para_pais)

\* the for loop: df.columns is read once, before the first iteration
RECURSIVE TreatColumns(_, _, _)
TreatColumns(t, colunas, estado_para_pais) ==
    IF colunas = <<>> THEN t
    ELSE TreatColumns(TreatColumn(t, Head(colunas), estado_para_pais),
                      Tail(colunas), estado_para_pais)

Names(t) == [i \in 1..Len(t) |-> t[i].name]

\* mutant of ReferenceFetch: the dictionary is fetched only for a table that has
\* a reference-key column
ReferenceFetchLazy(cache, t, db) ==
    IF \E j \in 1..Len(t) : IsEstado(t[j].name)
    THEN Fetch(cache, Args(PaisQuery, NoParams, Str(sEstado)), db)
    ELSE Done(cache, NoArgs, "none", DictResult(<<>>), FALSE, FALSE, 0)

\* estado_para_pais = self.fetch_reference_data(query, 'estado'): the call
\* stands before the loop, under no condition on the table
ReferenceFetch(cache, t, db) == Fetch(cache, Args(PaisQuery, NoParams, Str(sEstado)), db)

\* the rest of process_data, once the fetch f has ended: its exception leaves
\* process_data before any column is touched
NormalizeWith(t, f) ==
    [cache |-> f.cache, outcome |-> f.outcome, error |-> f.error,
     df |-> IF f.outcome = "raised" THEN t ELSE TreatColumns(t, Names(t), f.result),
     fetch |-> CallRecord(f), leaked |-> f.leaked]

\* One whole call of process_data on table t, with the cache as it stands and a
\* store that answers `db`.
process_data(cache, t, db) == NormalizeWith(t, ReferenceFetch(cache, t, db))

-----------------------------------------------------------------------------
(* process_file and process_all_files *)

NoTable == <<>>

\* per input file: how its process_file call ended and what output_dir holds
FileState(status, error, out) ==
    [status |-> status, error |-> error, written |-> out.written, table |-> out.table]
NoOutput == [written |-> "none", table |-> NoTable]
Pending == FileState("pending", "none", NoOutput)

\* mutant of OutputAfter: the table is written whatever process_data did
OutputEarly(pd, io) ==
    IF io = "writefail" THEN [written |-> "partial", table |-> NoTable]
    ELSE [written |-> "full", table |-> pd.df]

\* processed_df.to_csv(...) stands after process_data: what output_dir holds for
\* the file once process_data has ended as pd and the write has ended as io
OutputAfter(pd, io) ==
    IF pd.outcome = "raised" THEN NoOutput
    ELSE IF io = "writefail" THEN [written |-> "partial", table |-> NoTable]
    ELSE [written |-> "full", table |-> pd.df]

\* process_file from process_data on; every exception is logged and raised again
Write(pd, io) ==
    [cache |-> pd.cache,
     outcome |-> IF pd.outcome = "raised" \/ io = "writefail" THEN "raised" ELSE "returned",
     error |-> IF pd.outcome = "raised" THEN pd.error
               ELSE IF io = "writefail" THEN "WriteError" ELSE "none",
     out |-> OutputAfter(pd, io), fetch |-> pd.fetch, leaked |-> pd.leaked]

\* One whole call of process_file on a file holding table t.  io is how the
\* file system answers: "readfail" (open/read_csv raises), "writefail" (to_csv
\* raises), "ok".
process_file(cache, t, db, io) ==
    IF io = "readfail"
    THEN [cache |-> cache, outcome |-> "raised", error |-> "ReadError",
          out |-> NoOutput, fetch |-> NoCall, leaked |-> 0]
    ELSE Write(process_data(cache, t, db), io)

\* mutant of LoopAfter: the loop goes on after a failing file
LoopContinues(outcome, i) == [run |-> "running", next_file |-> i + 1]

\* the for loop of process_all_files after one process_file call: an exception
\* leaves the loop and is raised again by the except clause around it
LoopAfter(outcome, i) ==
    IF outcome = "raised" THEN [run |-> "failed", next_file |-> i]
    ELSE [run |-> "running", next_file |-> i + 1]

-----------------------------------------------------------------------------
(* State machines *)

IoOutcomes == {"ok", "readfail", "writefail"}

NoPdCall == [done |-> FALSE, outcome |-> "none", error |-> "none", fetch |-> NoCall, pass |-> 0]

\* the history of returns, after the fetch call c (NoCall: no call was made)
RecordReturn(h, c) ==
    IF c.outcome = "returned" THEN h \cup {[args |-> c.args, result |-> c.result]} ELSE h

LastCall(old, c) == IF c.outcome = "none" THEN old ELSE c

FetchIdle == db_cache = EmptyCache /\ call = NoCall /\ openConns = 0 /\ returned = {}
ConvIdle == value = None /\ converted = NotConverted
DataIdle == df = NoTable /\ before = NoTable /\ pd_call = NoPdCall
FilesIdle == csv_files = <<>> /\ outputs = <<>> /\ next_file = 1 /\ run = "idle"

convVars == <<value, converted>>
dataVars == <<df, before, pd_call>>
fileVars == <<csv_files, outputs, next_file, run>>

\* what a fetch_reference_data call f, made now, leaves behind
Fetched(f, c) ==
    /\ db_cache' = f.cache
    /\ call' = LastCall(call, c)
    /\ openConns' = openConns + f.leaked
    /\ returned' = RecordReturn(returned, c)

(* fetch_reference_data called by any client, with any of FetchArgs *)

Init == FetchIdle /\ ConvIdle /\ DataIdle /\ FilesIdle

FetchStep(f) == Fetched(f, CallRecord(f)) /\ UNCHANGED <<convVars, dataVars, fileVars>>

FetchReferenceData ==
    \E args \in FetchArgs, db \in Outcomes : FetchStep(Fetch(db_cache, args, db))

Next == FetchReferenceData

Spec == Init /\ [][Next]_vars

(* convert_single applied to one value *)

InitConv ==
    FetchIdle /\ DataIdle /\ FilesIdle /\ value \in ConvInputs /\ converted = NotConverted

ConvertSingle ==
    /\ ~converted.done
    /\ converted' = convert_single(value)
    /\ UNCHANGED <<db_cache, call, openConns, returned, value, dataVars, fileVars>>

NextConv == ConvertSingle

SpecConv == InitConv /\ [][NextConv]_vars

(* process_data applied, once and again, to a table as read_csv(dtype=str) gives it *)

MaxRows == 2
MaxPasses == 2

ColNome == <<"N", "O", "M", "E">>
ColEstado == <<"E", "s", "t", "a", "d", "o">>
ColEstado2 == <<"E", "S", "T", "A", "D", "O", "2">>
ColNames == {ColNome, FeeUS, ColEstado, ColEstado2, IdPais}

\* one or two columns, their names distinct
Headers ==
    {<<a>> : a \in ColNames} \cup {h \in ColNames \X ColNames : h[1] # h[2]}

InputCells == {NaN, Str(<<" ", "S", "P">>), Str(<<"1", ",", "5">>)}

\* read_csv(dtype=str, na_values=...): every column has dtype object and holds
\* text or nan
InitData ==
    /\ FetchIdle /\ ConvIdle /\ FilesIdle
    /\ \E h \in Headers, r \in 1..MaxRows :
         \E cs \in [1..Len(h) -> [1..r -> InputCells]] :
            df = [j \in 1..Len(h) |-> Column(h[j], "object", cs[j])]
    /\ before = NoTable
    /\ pd_call = NoPdCall

DataStep(r) ==
    /\ Fetched(r, r.fetch)
    /\ before' = df
    /\ df' = r.df
    /\ pd_call' = [done |-> TRUE, outcome |-> r.outcome, error |-> r.error,
                   fetch |-> r.fetch,
                   pass |-> IF r.outcome = "returned" THEN pd_call.pass + 1
                            ELSE pd_call.pass]
    /\ UNCHANGED <<convVars, fileVars>>

ProcessData ==
    /\ pd_call.pass < MaxPasses
    /\ \E db \in Outcomes : DataStep(process_data(db_cache, df, db))

NextData == ProcessData

SpecData == InitData /\ [][NextData]_vars

(* process_all_files over the files of input_dir *)

MaxFiles == 3

FileTables ==
    { <<Column(ColNome, "object", <<Str(<<" ", "S", "P">>), NaN>>)>>,
      <<Column(ColEstado, "object", <<Str(<<" ", "S", "P">>), NaN>>),
        Column(FeeUS, "object", <<Str(<<"1", ",", "5">>), Str(<<" ", "S", "P">>)>>)>> }

InitFiles ==
    /\ FetchIdle /\ ConvIdle /\ DataIdle
    /\ \E n \in 0..MaxFiles : csv_files \in [1..n -> FileTables]
    /\ outputs = [i \in 1..Len(csv_files) |-> Pending]
    /\ next_file = 1
    /\ run = "idle"

\* listdir, the empty-directory return, the first log line
StartRun ==
    /\ run = "idle"
    /\ run' = IF csv_files = <<>> THEN "done" ELSE "running"
    /\ UNCHANGED <<db_cache, call, openConns, returned, convVars, dataVars,
                   csv_files, outputs, next_file>>

FileStep(r, after) ==
    /\ Fetched(r, r.fetch)
    /\ outputs' = [outputs EXCEPT ![next_file] =
                     FileState(IF r.outcome = "raised" THEN "error" ELSE "ok", r.error, r.out)]
    /\ run' = after.run
    /\ next_file' = after.next_file
    /\ UNCHANGED <<convVars, dataVars, csv_files>>

FileCall(r) == FileStep(r, LoopAfter(r.outcome, next_file))

\* one iteration of the loop: a whole process_file call
ProcessFile ==
    /\ run = "running"
    /\ next_file <= Len(csv_files)
    /\ \E db \in Outcomes, io \in IoOutcomes :
         FileCall(process_file(db_cache, csv_files[next_file], db, io))

\* the loop is over: the closing log line, the return
FinishRun ==
    /\ run = "running"
    /\ next_file > Len(csv_files)
    /\ run' = "done"
    /\ UNCHANGED <<db_cache, call, openConns, returned, convVars, dataVars,
                   csv_files, outputs, next_file>>

NextFiles == StartRun \/ ProcessFile \/ FinishRun

SpecFiles == InitFiles /\ [][NextFiles]_vars
-----------------------------------------------------------------------------
(* Properties *)

EstadoArgs == Args(PaisQuery, NoParams, Str(sEstado))
LookupErrors == {"ConnectError", "QueryError", "UnboundLocalError"}
HasEstado(t) == \E j \in 1..Len(t) : IsEstado(t[j].name)

\* C1: once a fetch_reference_data call with given arguments has returned, every
\* later call with the same arguments returns the same result and neither
\* acquires a connection nor executes a query.  (Spec)
C1_CachedNotRequeried ==
    [][\A h \in returned :
          call'.args = h.args =>
             /\ call'.outcome = "returned"
             /\ call'.result = h.result
             /\ ~call'.connected
             /\ ~call'.executed]_vars

\* C1 witness: a call for the country dictionary is served from the cache
C1_Witness ==
    /\ call.args = EstadoArgs
    /\ call.outcome = "returned"
    /\ ~call.connected
    /\ \E h \in returned : h.args = call.args /\ h.result = call.result

\* C6: when fetch_reference_data raises, no connection is left open and the
\* error that reaches the caller is the connection failure or the query
\* failure, never an error of the release step.  (Spec)
C6_ReleaseKeepsFailure ==
    /\ openConns = 0
    /\ call.outcome = "raised" => call.error \in {"ConnectError", "QueryError"}

\* C10: every fetch_reference_data call that returns gives the result of its
\* own query in its own shape: the rows as a list when key_field is absent, the
\* rows indexed by key_field when it is present.  (Spec)
C10_OwnResult ==
    call.outcome = "returned" =>
        call.result = Shape(QueryRows(call.args), call.args.key_field)

RECURSIVE Pow10(_)
Pow10(k) == IF k = 0 THEN 1 ELSE 10 * Pow10(k - 1)

\* the trimmed text with every '.' removed and every ',' turned into '.'
Substituted(text) ==
    [i \in 1..Len(SelectSeq(Strip(text), LAMBDA c : c # ".")) |->
        IF SelectSeq(Strip(text), LAMBDA c : c # ".")[i] = "," THEN "."
        ELSE SelectSeq(Strip(text), LAMBDA c : c # ".")[i]]

Unsigned(w) == IF w # <<>> /\ w[1] \in {"-", "+"} THEN Tail(w) ELSE w

\* a decimal: blanks around it, an optional sign, digits with at most one point
IsDecimal(u) ==
    /\ \A i \in 1..Len(Unsigned(Strip(u))) : Unsigned(Strip(u))[i] \in Digits \cup {"."}
    /\ Cardinality({i \in 1..Len(u) : u[i] = "."}) <= 1
    /\ \E i \in 1..Len(u) : u[i] \in Digits

\* the digits of u read as one integer, and the number of them after the point
DigitsOf(u) == IntOf(SelectSeq(u, LAMBDA c : c \in Digits))
AfterPoint(u) ==
    Cardinality({i \in 1..Len(Strip(u)) :
                    \E k \in 1..(i - 1) : Strip(u)[k] = "."})

\* v is the number that the decimal u writes
IsValueOf(v, u) ==
    /\ v.t = "num"
    /\ v.d <= AfterPoint(u)
    /\ (IF Strip(u)[1] = "-" THEN 0 - v.n ELSE v.n) * Pow10(AfterPoint(u) - v.d) = DigitsOf(u)

C4_NullStaysNull ==
    pd_call.outcome = "returned" =>
        \A j \in 1..Len(before) : \A i \in 1..Len(before[j].cells) :
            IsNa(before[j].cells[i]) => IsNa(ColumnOf(df, before[j].name).cells[i])

\* C7: the table process_data returns holds the columns of the input in their
\* order, every column as long as before, followed by the derived ID_PAIS
\* column when a column name contains ESTADO.  (SpecData)
C7_ColumnsKept ==
    pd_call.outcome = "returned" =>
        /\ Names(df) = Names(before) \o (IF HasEstado(before) THEN <<IdPais>> ELSE <<>>)
        /\ \A j \in 1..Len(df) : Len(df[j].cells) = Len(before[1].cells)

\* C8: process_data applied to a table that process_data returned gives back
\* that table, cell for cell.  (SpecData)
C8_FixedPoint ==
    pd_call.outcome = "returned" /\ pd_call.pass >= 2 => df = before

\* C9 as stated: a table with a reference-key column causes one
\* fetch_reference_data call, a table without one causes none and cannot be
\* aborted by the reference store.  (SpecData)
C9_FetchOnlyWhenNeeded ==
    pd_call.done =>
        IF HasEstado(before)
        THEN pd_call.fetch.args = EstadoArgs
        ELSE pd_call.fetch.outcome = "none" /\ pd_call.outcome = "returned"

\* C9 amended: every process_data call makes one fetch_reference_data call for
\* the country dictionary, before any column is treated and whatever the
\* columns of the table; when that call raises, process_data raises the same
\* error and leaves the table as it was.  (SpecData)
C9_FetchAlways ==
    pd_call.done =>
        /\ pd_call.fetch.args = EstadoArgs
        /\ pd_call.fetch.outcome \in {"returned", "raised"}
        /\ call = pd_call.fetch
        /\ pd_call.fetch.outcome = "raised" =>
              /\ pd_call.outcome = "raised"
              /\ pd_call.error = pd_call.fetch.error
              /\ df = before
        /\ pd_call.fetch.outcome = "returned" => pd_call.outcome = "returned"

\* C9 witness: a table with no reference-key column was aborted by the store
C9_Witness ==
    /\ pd_call.done
    /\ ~HasEstado(df)
    /\ pd_call.outcome = "raised"
    /\ pd_call.fetch.connected

\* C2 as stated: when process_all_files ends, every file of the list has been
\* processed, those after a failing file included.  (SpecFiles)
C2_BatchContinues ==
    run \in {"done", "failed"} =>
        \A i \in 1..Len(csv_files) : outputs[i].status # "pending"

\* C2 amended: a failure while processing one file ends process_all_files with
\* that error: the files before it are processed and written, no file after it
\* is processed or written; only a run with no failure processes every file.
\* (SpecFiles)
C2_FailureAbortsBatch ==
    /\ \A i \in 1..Len(csv_files) :
          outputs[i].status = "error" =>
             /\ run = "failed"
             /\ next_file = i
             /\ \A j \in (i + 1)..Len(csv_files) : outputs[j] = Pending
             /\ \A j \in 1..(i - 1) : outputs[j].status = "ok" /\ outputs[j].written = "full"
    /\ run = "failed" => next_file <= Len(csv_files) /\ outputs[next_file].status = "error"
    /\ run = "done" => \A i \in 1..Len(csv_files) : outputs[i].status = "ok"

\* C2 witness: the run failed on a file that has files before and after it
C2_Witness ==
    /\ run = "failed"
    /\ 1 < next_file
    /\ next_file < Len(csv_files)

\* C3: in every process_file call, a failure of the reference lookup reaches the
\* caller and leaves no output for the file; a full output is the table
\* process_data returned; the outputs of the other files stay as they were.
\* (SpecFiles)
C3_OutputAfterNormalization ==
    [][\A i \in 1..Len(csv_files) :
          /\ outputs'[i].error \in LookupErrors =>
                /\ outputs'[i].written = "none"
                /\ outputs'[i].status = "error"
                /\ run' = "failed"
          /\ i # next_file => outputs'[i] = outputs[i]
          /\ outputs'[i].written = "full" /\ i = next_file /\ outputs'[i] # outputs[i] =>
                \E db \in Outcomes :
                    /\ process_data(db_cache, csv_files[i], db).outcome = "returned"
                    /\ outputs'[i].table = process_data(db_cache, csv_files[i], db).df]_vars

\* C3 witness: the reference lookup failed for a file and nothing was written
C3_Witness ==
    /\ run = "failed"
    /\ outputs[next_file].error \in LookupErrors
    /\ outputs[next_file].written = "none"

====
